---- MODULE Spec2Model ----
(***************************************************************************)
(* SyncNSweat-BE: the Spotify token lifecycle (SpotifyInterceptor driven   *)
(* by SpotifyService) and the playlist pipeline of PlaylistSelectorService.*)
(*                                                                         *)
(* Python values are tagged pairs <<tag, n>>, so that any two of them can  *)
(* be compared: None, numbers, the empty string, access tokens <<"at", k>> *)
(* and refresh tokens <<"rt", k>>.  A dict is a record whose absent keys   *)
(* hold PyNone (dict.get of an absent key is None).                        *)
(***************************************************************************)
EXTENDS Integers, Sequences, FiniteSets, TLC

PyNone   == <<"none", 0>>
EmptyStr == <<"str", 0>>
Bearer   == <<"str", 1>>
Num(n)   == <<"num", n>>
AT(k)    == <<"at", k>>
RT(k)    == <<"rt", k>>

\* Python truthiness of the values used here: None, "" and 0 are falsy.
Truthy(v) == v # PyNone /\ v # EmptyStr /\ v # Num(0)

\* Python's `a or b`.
PyOr(a, b) == IF Truthy(a) THEN a ELSE b

---------------------------------------------------------------------------
(* Bounds of the model and constants of the program. *)

MaxCalls == 2

token_buffer_seconds == 300

\* Clock readings (time.time()), chosen around the expiry instants below.
Times == {1000}

\* HTTP statuses the provider may answer with.
Statuses == {200, 401, 500}

\* The requests a caller routes through the service (method, url, params, body).
Requests ==
  { [method |-> "GET",  url |-> "/me",                 params |-> PyNone, json_data |-> PyNone],
    [method |-> "POST", url |-> "/users/u/playlists",  params |-> PyNone, json_data |-> Num(7)] }

\* An empty spotify_data dict.
EmptyData ==
  [access_token |-> PyNone, refresh_token |-> PyNone, expires_at |-> PyNone,
   expires_in |-> PyNone, token_type |-> PyNone]

\* Stored token sets a service can start from: a connected account, with or
\* without refresh token and expiry, or an account that never connected.
StoredData ==
  { [EmptyData EXCEPT !.access_token = AT(0), !.refresh_token = rt, !.expires_at = ea]
      : rt \in {PyNone, RT(0)},
        ea \in {PyNone, Num(1299), Num(1300), Num(1301)} }
    \cup {EmptyData}

\* Token payloads the refresh callback can return for the k-th refresh
\* (response.json() of the token endpoint); an error payload has no access_token.
\* A payload with no key at all.
NoPayload ==
  [access_token |-> PyNone, refresh_token |-> PyNone, expires_in |-> PyNone,
   token_type |-> PyNone, expires_at |-> PyNone]

RefreshPayloads(k) ==
  { [NoPayload EXCEPT !.access_token = AT(k), !.refresh_token = RT(k),
                      !.expires_in = Num(3600), !.token_type = Bearer],
    [NoPayload EXCEPT !.access_token = AT(k)],
    NoPayload }

\* What a call of the refresh callback yields: a payload, or an exception.
RefreshResults(k) ==
  { [raised |-> FALSE, data |-> p] : p \in RefreshPayloads(k) }
    \cup { [raised |-> TRUE, data |-> NoPayload] }

NoResult == [raised |-> FALSE, data |-> NoPayload]

---------------------------------------------------------------------------
VARIABLES
  pc,            \* position of the call in flight
  now,           \* the clock
  calls,         \* calls started on this service
  prefs,         \* SpotifyService.preferences.spotify_data (the stored TokenSet)
  has_db,        \* the service was built with a profile and a db session
  req,           \* the request of the call in flight
  access_token,  \* intercept_request's arguments
  refresh_token,
  expires_at,
  current_token, \* the token of the Authorization header
  phase,         \* "proactive" or "reactive": which refresh is running
  token_data,    \* what the refresh callback yielded
  response,      \* the last provider response
  outcome,       \* how the call ended
  refreshes,     \* refreshes issued on this service (numbers the new tokens)
  events,        \* what the call in flight did, in order
  world,         \* the pipeline's arguments and what the provider answers to it
  p,             \* the locals of select_playlist_for_workout
  api_log,       \* the provider calls the pipeline issued, in order
  record,        \* the Preferences row of the profile, as committed
  sess,          \* per concurrent caller: its call and its db session
  stored0        \* the row as it was before the concurrent calls

\* The state of the token lifecycle, and the state of the pipeline.
cvars == <<pc, now, calls, prefs, has_db, req, access_token, refresh_token,
           expires_at, current_token, phase, token_data, response, outcome,
           refreshes, events>>
pvars == <<world, p, api_log>>
\* The state of the concurrent callers and of the row they share.
dvars == <<record, sess, stored0>>
vars  == <<cvars, pvars, dvars>>

NoResponse == [status |-> 0, json |-> FALSE]
NoOutcome  == [kind |-> "none", exc |-> "", body |-> NoResponse, invalid_json |-> FALSE]

Returned(resp) ==
  [kind |-> "returned", exc |-> "", body |-> resp, invalid_json |-> ~resp.json]
Raised(e) ==
  [kind |-> "raised", exc |-> e, body |-> NoResponse, invalid_json |-> FALSE]

InitCalls ==
  /\ pc = "idle"
  /\ now \in Times
  /\ calls = 0
  /\ prefs \in StoredData
  /\ has_db \in BOOLEAN
  /\ req = CHOOSE r \in Requests : r.method = "GET"
  /\ access_token = PyNone
  /\ refresh_token = PyNone
  /\ expires_at = PyNone
  /\ current_token = PyNone
  /\ phase = "none"
  /\ token_data = NoResult
  /\ response = NoResponse
  /\ outcome = NoOutcome
  /\ refreshes = 0
  /\ events = <<>>

---------------------------------------------------------------------------
(* SpotifyInterceptor *)

\* is_token_expired with the comparison made inclusive.
is_token_expired_inclusive(ea, t) ==
  IF ea = PyNone THEN FALSE ELSE ea[2] - t <= token_buffer_seconds

\* is_token_expired: no expiry means not expired; otherwise inside the buffer.
is_token_expired(ea, t) ==
  IF ea = PyNone THEN FALSE ELSE ea[2] - t < token_buffer_seconds

\* The guard of the proactive refresh in intercept_request.
NeedsProactiveRefresh(ea, rt, t) == is_token_expired(ea, t) /\ Truthy(rt)

\* The reactive guard testing the wrong status.
NeedsReactiveRefresh403(resp, rt) == resp.status = 403 /\ Truthy(rt)

\* The reactive guard taking every error status.
NeedsReactiveRefreshAnyError(resp, rt) == resp.status >= 400 /\ Truthy(rt)

\* The reactive guard ignoring whether a refresh token exists.
NeedsReactiveRefreshNoToken(resp, rt) == resp.status = 401

\* The guard of the reactive refresh in intercept_request.
NeedsReactiveRefresh(resp, rt) == resp.status = 401 /\ Truthy(rt)

\* refresh_expired_token's result: the payload's access_token if truthy, else None.
NewAccessToken(res) ==
  IF ~res.raised /\ Truthy(res.data.access_token) THEN res.data.access_token ELSE PyNone

\* update_spotify_tokens storing the payload in place of the stored dict.
update_spotify_tokens_replace(current, td) ==
  [access_token |-> td.access_token, refresh_token |-> td.refresh_token,
   expires_at |-> td.expires_at, expires_in |-> td.expires_in,
   token_type |-> td.token_type]

\* PreferencesService.update_spotify_tokens on an existing record: merge the
\* payload's fields that are not None.  The expires_at computation reads
\* getattr(token_data, "expires_in") from a dict, which raises and is caught,
\* so expires_in never sets expires_at.
update_spotify_tokens(current, td) ==
  LET c1 == IF td.access_token # PyNone
              THEN [current EXCEPT !.access_token = td.access_token] ELSE current
      c2 == IF td.refresh_token # PyNone
              THEN [c1 EXCEPT !.refresh_token = td.refresh_token] ELSE c1
      c3 == IF td.expires_in # PyNone
              THEN [c2 EXCEPT !.expires_in = td.expires_in] ELSE c2
      c4 == IF td.token_type # PyNone
              THEN [c3 EXCEPT !.token_type = td.token_type] ELSE c3
      c5 == IF td.expires_at # PyNone
              THEN [c4 EXCEPT !.expires_at = td.expires_at] ELSE c4
  IN c5

\* The persistence callback handed the new access token alone.
PersistPayloadTokenOnly(res) == [NoPayload EXCEPT !.access_token = res.data.access_token]

\* The payload handed to the persistence callback.
PersistPayload(res) == res.data

\* SpotifyService._make_api_call_with_interceptor up to the call of
\* make_request: a fresh interceptor, the inputs from the arguments or the
\* stored preferences, and the check that an access token exists.
StartCall ==
  /\ UNCHANGED <<pvars, dvars>>
  /\ pc \in {"idle", "DONE", "FAILED"}
  /\ calls < MaxCalls
  /\ \E r \in Requests, t \in {x \in Times : x >= now},
        a \in {PyNone, AT(0)}, rt \in {PyNone, EmptyStr}, ea \in {PyNone, Num(0)} :
       LET input_access_token  == PyOr(a, prefs.access_token)
           input_refresh_token == PyOr(rt, prefs.refresh_token)
           input_expires_at    == PyOr(ea, prefs.expires_at)
       IN /\ req' = r
          /\ now' = t
          /\ access_token' = input_access_token
          /\ refresh_token' = input_refresh_token
          /\ expires_at' = input_expires_at
          /\ IF Truthy(input_access_token)
               THEN pc' = "UNCHECKED" /\ outcome' = NoOutcome
               ELSE pc' = "FAILED" /\ outcome' = Raised("Access token is required")
  /\ calls' = calls + 1
  /\ current_token' = PyNone
  /\ phase' = "none"
  /\ token_data' = NoResult
  /\ response' = NoResponse
  /\ events' = <<>>
  /\ UNCHANGED <<prefs, has_db, refreshes>>

\* intercept_request, lines 131-140: the proactive check.
ProactiveCheck ==
  /\ UNCHANGED <<pvars, dvars>>
  /\ pc = "UNCHECKED"
  /\ current_token' = access_token
  /\ IF NeedsProactiveRefresh(expires_at, refresh_token, now)
       THEN pc' = "REFRESH" /\ phase' = "proactive"
       ELSE pc' = "SEND" /\ phase' = "none"
  /\ UNCHANGED <<now, calls, prefs, has_db, req, access_token, refresh_token,
                 expires_at, token_data, response, outcome, refreshes, events>>

\* refresh_expired_token calling the persistence callback whatever the
\* refresh callback yielded.
RefreshCallbackAlwaysPersist ==
  /\ UNCHANGED <<pvars, dvars>>
  /\ pc = "REFRESH"
  /\ refreshes' = refreshes + 1
  /\ \E td \in RefreshResults(refreshes + 1) :
       /\ token_data' = td
       /\ events' = Append(events, <<"refresh", phase, refresh_token, td>>)
       /\ pc' = "PERSIST"
  /\ UNCHANGED <<now, calls, prefs, has_db, req, access_token, refresh_token,
                 expires_at, current_token, phase, response, outcome>>

\* refresh_expired_token, lines 66-68: the refresh callback posts the refresh
\* token to the token endpoint; it returns a payload or raises.
RefreshCallback ==
  /\ UNCHANGED <<pvars, dvars>>
  /\ pc = "REFRESH"
  /\ refreshes' = refreshes + 1
  /\ \E td \in RefreshResults(refreshes + 1) :
       /\ token_data' = td
       /\ events' = Append(events, <<"refresh", phase, refresh_token, td>>)
       /\ pc' = IF NewAccessToken(td) # PyNone THEN "PERSIST" ELSE "REFRESHED"
  /\ UNCHANGED <<now, calls, prefs, has_db, req, access_token, refresh_token,
                 expires_at, current_token, phase, response, outcome>>

\* refresh_expired_token without the try/except around the persistence callback.
PersistPropagates ==
  /\ UNCHANGED <<pvars, dvars>>
  /\ pc = "PERSIST"
  /\ \E o \in {"ok", "storage_raises", "callback_raises"} :
       /\ events' = Append(events, <<"persist", o, PersistPayload(token_data)>>)
       /\ prefs' = IF o = "ok" /\ has_db
                     THEN update_spotify_tokens(prefs, PersistPayload(token_data))
                     ELSE prefs
       /\ IF o = "callback_raises"
            THEN pc' = "FAILED" /\ outcome' = Raised("persist_callback")
            ELSE pc' = "REFRESHED" /\ outcome' = outcome
  /\ UNCHANGED <<now, calls, has_db, req, access_token, refresh_token, expires_at,
                 current_token, phase, token_data, response, refreshes>>

\* refresh_expired_token, lines 70-82, calling SpotifyService.persist_callback:
\* the callback stores the payload; a storage failure is swallowed by the
\* callback (spotify.py 73-77), a raising callback by the interceptor (78-79).
Persist ==
  /\ UNCHANGED <<pvars, dvars>>
  /\ pc = "PERSIST"
  /\ \E o \in {"ok", "storage_raises", "callback_raises"} :
       /\ events' = Append(events, <<"persist", o, PersistPayload(token_data)>>)
       /\ prefs' = IF o = "ok" /\ has_db
                     THEN update_spotify_tokens(prefs, PersistPayload(token_data))
                     ELSE prefs
  /\ pc' = "REFRESHED"
  /\ UNCHANGED <<now, calls, has_db, req, access_token, refresh_token, expires_at,
                 current_token, phase, token_data, response, outcome, refreshes>>

\* intercept_request after refresh_expired_token returned: lines 137-140 for
\* the proactive refresh, lines 162-163 for the reactive one.
AfterRefresh ==
  /\ UNCHANGED <<pvars, dvars>>
  /\ pc = "REFRESHED"
  /\ LET new_token == NewAccessToken(token_data) IN
       IF phase = "proactive"
         THEN IF new_token # PyNone
                THEN /\ current_token' = new_token
                     /\ pc' = "SEND"
                     /\ outcome' = outcome
                ELSE \* SpotifyTokenExpiredException, rewrapped by the service
                     /\ current_token' = current_token
                     /\ pc' = "FAILED"
                     /\ outcome' = Raised("Token refresh failed")
         ELSE IF new_token # PyNone
                THEN /\ current_token' = new_token
                     /\ pc' = "RESEND"
                     /\ outcome' = outcome
                ELSE /\ current_token' = current_token
                     /\ pc' = "PARSE"
                     /\ outcome' = outcome
  /\ UNCHANGED <<now, calls, prefs, has_db, req, access_token, refresh_token,
                 expires_at, phase, token_data, response, refreshes, events>>

\* _make_request_with_headers: the request goes out with the current token;
\* the provider answers, or the transport fails (SpotifyAPIError).
Transport(next) ==
  /\ UNCHANGED <<pvars, dvars>>
  /\ \/ \E s \in Statuses, j \in BOOLEAN :
          /\ response' = [status |-> s, json |-> j]
          /\ events' = events \o << <<"send", req, current_token>>,
                                    <<"recv", [status |-> s, json |-> j]>> >>
          /\ pc' = next
          /\ outcome' = outcome
     \/ /\ response' = response
        /\ events' = Append(events, <<"send", req, current_token>>)
        /\ pc' = "FAILED"
        /\ outcome' = Raised("SpotifyAPIError")
  /\ UNCHANGED <<now, calls, prefs, has_db, req, access_token, refresh_token,
                 expires_at, current_token, phase, token_data, refreshes>>

\* intercept_request, lines 142-155: the first request.
Send ==
  /\ pc = "SEND"
  /\ Transport("SENT")

\* intercept_request, lines 157-160 and 173: a 401 with a refresh token starts
\* the reactive refresh, any other response is returned.
HandleResponse ==
  /\ UNCHANGED <<pvars, dvars>>
  /\ pc = "SENT"
  /\ IF NeedsReactiveRefresh(response, refresh_token)
       THEN pc' = "REFRESH" /\ phase' = "reactive"
       ELSE pc' = "PARSE" /\ phase' = phase
  /\ UNCHANGED <<now, calls, prefs, has_db, req, access_token, refresh_token,
                 expires_at, current_token, token_data, response, outcome,
                 refreshes, events>>

\* The retry handled like a first request, so that a 401 is retried again.
ResendLoop ==
  /\ pc = "RESEND"
  /\ Transport("SENT")

\* intercept_request, lines 163-171: the retry with the new token.
Resend ==
  /\ pc = "RESEND"
  /\ Transport("PARSE")

\* make_request raising on an error status (as response.raise_for_status() would).
ParseRaiseForStatus ==
  /\ UNCHANGED <<pvars, dvars>>
  /\ pc = "PARSE"
  /\ IF response.status >= 400
       THEN outcome' = Raised("HTTPError") /\ pc' = "FAILED"
       ELSE outcome' = Returned(response) /\ pc' = "DONE"
  /\ UNCHANGED <<now, calls, prefs, has_db, req, access_token, refresh_token,
                 expires_at, current_token, phase, token_data, response,
                 refreshes, events>>

\* make_request, lines 202-208: the parsed body, or the invalid-JSON dict.
Parse ==
  /\ UNCHANGED <<pvars, dvars>>
  /\ pc = "PARSE"
  /\ outcome' = Returned(response)
  /\ pc' = "DONE"
  /\ UNCHANGED <<now, calls, prefs, has_db, req, access_token, refresh_token,
                 expires_at, current_token, phase, token_data, response,
                 refreshes, events>>

---------------------------------------------------------------------------
(* PlaylistSelectorService: data *)

Min(a, b) == IF a < b THEN a ELSE b
Max(a, b) == IF a > b THEN a ELSE b

SeqsUpTo(S, n) == UNION { [1..k -> S] : k \in 0..n }
Take(seq, n)   == SubSeq(seq, 1, Min(n, Len(seq)))
Range(seq)     == { seq[i] : i \in 1..Len(seq) }

\* A track object of the provider; even ids are long tracks, odd ids short ones.
TrackId(k) == <<"id", k>>
Uri(k)     == <<"uri", k>>
T(k) ==
  [id |-> TrackId(k), uri |-> Uri(k),
   duration_ms |-> Num(IF k % 2 = 0 THEN 100000 ELSE 30000)]
\* Malformed track objects: no id, no uri, a duration that is not an int.
NoIdTrack     == [T(0) EXCEPT !.id = PyNone]
NoUriTrack(k) == [T(k) EXCEPT !.uri = PyNone]
NoDurTrack(k) == [T(k) EXCEPT !.duration_ms = PyNone]

\* The "error" of a response dict: absent, a dict carrying a status (Num(s)),
\* a plain string (the invalid-JSON dict of make_request); ErrRaise stands for
\* a call of make_api_call that raised instead of returning.
ErrText   == <<"str", 2>>
ErrRaise  == <<"exc", 0>>

\* make_request, lines 202-208, on a provider response of status http:
\* response.json() when the body is JSON (body on success, the provider's
\* error object, which carries the status, on an error status), else the
\* invalid-JSON dict, whose "error" is a string.  absent is the dict of the
\* step with none of its keys.
response_json(http, json, body, absent) ==
  IF ~json THEN [absent EXCEPT !.http = http, !.error = ErrText]
  ELSE IF http >= 400 THEN [absent EXCEPT !.http = http, !.error = Num(http)]
  ELSE [body EXCEPT !.http = http]

\* make_api_call raised before any response was parsed.
api_call_raised(absent) == [absent EXCEPT !.http = 0, !.error = ErrRaise]

\* An average: num/den, and den = 0 when there is none.
Frac(n, d) == [num |-> n, den |-> d]
NoAvg      == Frac(0, 0)

SeedTrackLimit  == 3
SeedArtistLimit == 2
SeedBudget      == 5
GenreLimit      == 5

\* Bounds on what the provider returns.
MaxTop    == SeedTrackLimit + 1
MaxRecent == 1
MaxRecs   == 2
MaxArtists == SeedArtistLimit + 1
MaxGenres  == 2
MaxFeatures == 2

\* energy_map and tempo_map; energies in hundredths.
energy_map(goal) ==
  CASE goal = "strength"        -> 80
    [] goal = "endurance"       -> 72
    [] goal = "weight_loss"     -> 75
    [] goal = "muscle_gain"     -> 85
    [] goal = "general_fitness" -> 70
    [] OTHER                    -> 70

\* str.lower() on the tempo labels used here.
Lower(x) ==
  CASE x = "Fast" -> "fast"
    [] x = "FAST" -> "fast"
    [] OTHER      -> x

tempo_map(key) ==
  CASE key = "slow"   -> 100
    [] key = "medium" -> 130
    [] key = "fast"   -> 160
    [] key = "mixed"  -> 125
    [] OTHER          -> 130

\* calculate_target_params; a None goal or tempo reads as "".
calculate_target_params(fitness_goal, music_tempo) ==
  [target_energy |-> energy_map(IF fitness_goal = "None" THEN "" ELSE fitness_goal),
   target_tempo  |-> tempo_map(Lower(IF music_tempo = "None" THEN "" ELSE music_tempo))]

\* g.strip().lower() on the genre strings used here.
StripLower(g) ==
  CASE g \in {"rock", "Rock", " rock "} -> "rock"
    [] g \in {"pop", "POP"}             -> "pop"
    [] g \in {"", "  "}                 -> ""
    [] OTHER                            -> g

RECURSIVE MapStripLower(_)
\* [g.strip().lower() for g in music_genres if g and g.strip()]
MapStripLower(gs) ==
  IF gs = <<>> THEN <<>>
  ELSE IF Head(gs) # "" /\ StripLower(Head(gs)) # ""
         THEN <<StripLower(Head(gs))>> \o MapStripLower(Tail(gs))
         ELSE MapStripLower(Tail(gs))

\* Step 3 without the test of line 123 against the provider's list.
ValidatedGenresUnchecked(music_genres, available_genres) ==
  Take(MapStripLower(music_genres), GenreLimit)

\* Step 3: the requested genres, cut to five, that the provider lists.
ValidatedGenres(music_genres, available_genres) ==
  SelectSeq(Take(MapStripLower(music_genres), GenreLimit),
            LAMBDA g : g \in available_genres)

RECURSIVE TruthyIds(_)
\* The ids of the items that have one.
TruthyIds(items) ==
  IF items = <<>> THEN <<>>
  ELSE IF Truthy(Head(items).id)
         THEN <<Head(items).id>> \o TruthyIds(Tail(items))
         ELSE TruthyIds(Tail(items))

\* Step 4: the seeds.
SeedTrackIds(top_tracks)   == TruthyIds(Take(top_tracks, SeedTrackLimit))
SeedArtistIds(top_artists) == TruthyIds(Take(top_artists, SeedArtistLimit))
\* Line 138 without counting the track and artist seeds.
RemainingSeedSlotsNoCount(seed_track_ids, seed_artist_ids) == SeedBudget
\* Line 138.
RemainingSeedSlots(seed_track_ids, seed_artist_ids) ==
  Max(0, SeedBudget - (Len(seed_track_ids) + Len(seed_artist_ids)))

RECURSIVE SumNums(_)
SumNums(vals) == IF vals = <<>> THEN 0 ELSE Head(vals)[2] + SumNums(Tail(vals))

\* _avg(key) over the feature dicts: the mean of the numeric values, or None.
Avg(vals) ==
  LET nums == SelectSeq(vals, LAMBDA v : v[1] = "num")
  IN IF nums = <<>> THEN NoAvg ELSE Frac(SumNums(nums), Len(nums))

\* Lines 172-176 preferring the fallback to the average.
TargetsFallbackFirst(features, fitness_goal, music_tempo) ==
  LET fallback == calculate_target_params(fitness_goal, music_tempo)
  IN [target_energy       |-> Frac(fallback.target_energy, 1),
      target_tempo        |-> Frac(fallback.target_tempo, 1),
      target_valence      |-> Frac(50, 1),
      target_danceability |-> Frac(50, 1)]

\* Lines 172-176: each target is the average, or its fallback.
Targets(features, fitness_goal, music_tempo) ==
  LET fallback == calculate_target_params(fitness_goal, music_tempo)
      avg(key) == Avg([i \in 1..Len(features) |-> features[i][key]])
      pick(a, d) == IF a # NoAvg THEN a ELSE Frac(d, 1)
  IN [target_energy       |-> pick(avg("energy"), fallback.target_energy),
      target_tempo        |-> pick(avg("tempo"), fallback.target_tempo),
      target_valence      |-> pick(avg("valence"), 50),
      target_danceability |-> pick(avg("danceability"), 50)]

\* _raise_if_auth_error raises: the error is a dict whose status is 401 or 403.
IsAuthError(err) == err[1] = "num" /\ err[2] \in {401, 403}

\* Line 82.
MaxDurationMs(duration_minutes) ==
  IF duration_minutes # PyNone THEN duration_minutes[2] * 60 * 1000
                               ELSE 60 * 60 * 1000

\* The accumulator of step 7; chosen_ids lists the ids in the order chosen.
NoAcc ==
  [chosen_uris |-> <<>>, chosen_ids |-> <<>>, total_ms |-> 0, seen_track_ids |-> {}]

\* Line 217 without the test against the seed tracks.
SkipByIdNoSeeds(t, seen_track_ids, seed_track_set) ==
  ~Truthy(t.id) \/ t.id \in seen_track_ids

\* Line 217: a track without id, already chosen, or a seed, is skipped.
SkipById(t, seen_track_ids, seed_track_set) ==
  ~Truthy(t.id) \/ t.id \in seen_track_ids \/ t.id \in seed_track_set

\* Line 221: a track without uri or with a non-int duration is skipped.
SkipByShape(t) == ~Truthy(t.uri) \/ t.duration_ms[1] # "num"

RECURSIVE accumulate_from_tracks(_, _, _, _)
\* _accumulate_from_tracks: stop once the total has reached the budget.
accumulate_from_tracks(tracks, acc, seed_track_set, max_duration_ms) ==
  IF tracks = <<>> \/ acc.total_ms >= max_duration_ms THEN acc
  ELSE LET t == Head(tracks) IN
    IF SkipById(t, acc.seen_track_ids, seed_track_set) \/ SkipByShape(t)
      THEN accumulate_from_tracks(Tail(tracks), acc, seed_track_set, max_duration_ms)
      ELSE accumulate_from_tracks(
             Tail(tracks),
             [chosen_uris    |-> Append(acc.chosen_uris, t.uri),
              chosen_ids     |-> Append(acc.chosen_ids, t.id),
              total_ms       |-> acc.total_ms + t.duration_ms[2],
              seen_track_ids |-> acc.seen_track_ids \cup {t.id}],
             seed_track_set, max_duration_ms)

\* random.shuffle: every order of the list.
Shuffles(seq) ==
  { [i \in 1..Len(seq) |-> seq[f[i]]] : f \in Permutations(1..Len(seq)) }

\* Lines 206-233 topping the recommendations up from the history whenever
\* the budget is not reached.
Step7AlwaysFallback(rec_tracks, top_tracks, recent_tracks, seed_track_ids, max_duration_ms) ==
  LET seed_track_set == Range(seed_track_ids)
      first == accumulate_from_tracks(rec_tracks, NoAcc, seed_track_set, max_duration_ms)
  IN { [acc |-> accumulate_from_tracks(combined, first, seed_track_set,
                                       max_duration_ms),
        fallback |-> first.chosen_uris = <<>>]
         : combined \in Shuffles(top_tracks \o recent_tracks) }

\* Lines 206-233: accumulate from the recommendations and, when nothing was
\* chosen, from the shuffled top and recently played tracks.
Step7(rec_tracks, top_tracks, recent_tracks, seed_track_ids, max_duration_ms) ==
  LET seed_track_set == Range(seed_track_ids)
      first == accumulate_from_tracks(rec_tracks, NoAcc, seed_track_set, max_duration_ms)
  IN IF first.chosen_uris # <<>>
       THEN { [acc |-> first, fallback |-> FALSE] }
       ELSE { [acc |-> accumulate_from_tracks(combined, first, seed_track_set,
                                               max_duration_ms),
               fallback |-> TRUE] : combined \in Shuffles(top_tracks \o recent_tracks) }

---------------------------------------------------------------------------
(* PlaylistSelectorService.select_playlist_for_workout *)

\* What make_api_call returns at each step when nothing goes wrong and the
\* user has little history; the worlds below vary parts of it.  Each dict is
\* kept with the status (http) of the provider response it was parsed from.
NominalWorld ==
  [fitness_goal     |-> "strength",
   music_genres     |-> <<"Rock">>,
   music_tempo      |-> "fast",
   duration_minutes |-> PyNone,
   me       |-> [http |-> 200, error |-> PyNone, id |-> <<"user", 1>>,
                 country |-> <<"str", 3>>],
   top      |-> [http |-> 200, error |-> PyNone, items |-> <<T(1)>>],
   artists  |-> [http |-> 200, error |-> PyNone, items |-> <<[id |-> <<"artist", 1>>]>>],
   recent   |-> [http |-> 200, error |-> PyNone, items |-> <<>>],
   genres   |-> [http |-> 200, error |-> PyNone, genres |-> {"rock", "pop"}],
   features |-> [http |-> 200, error |-> PyNone,
                 audio_features |-> <<[energy |-> Num(90), valence |-> Num(40),
                                       danceability |-> Num(60), tempo |-> Num(120)]>>],
   recs1    |-> [http |-> 200, error |-> PyNone, tracks |-> <<>>],
   recs2    |-> [http |-> 200, error |-> PyNone, tracks |-> <<>>],
   create   |-> [http |-> 200, error |-> PyNone, id |-> <<"playlist", 1>>],
   add      |-> [http |-> 200, error |-> PyNone]]

\* The locals before the call.
NoTargets ==
  [target_energy |-> NoAvg, target_tempo |-> NoAvg, target_valence |-> NoAvg,
   target_danceability |-> NoAvg]
NoPlaylistResult == [id |-> PyNone, best_effort |-> FALSE, tracksAdded |-> PyNone]
P0 ==
  [pc |-> "start", max_duration_ms |-> 0, user_id |-> PyNone, user_country |-> PyNone,
   top_tracks |-> <<>>, top_artists |-> <<>>, recent_tracks |-> <<>>,
   validated_genres |-> <<>>, seed_track_ids |-> <<>>, seed_artist_ids |-> <<>>,
   seed_genres |-> <<>>, targets |-> NoTargets, rec_tracks |-> <<>>,
   acc |-> NoAcc, fallback |-> FALSE, playlist_id |-> PyNone,
   result |-> NoPlaylistResult, raised |-> ""]

InitPipeline ==
  /\ world = NominalWorld
  /\ p = P0
  /\ api_log = <<>>

\* An exception leaves the pipeline.
RaiseAt(context) == [p EXCEPT !.pc = "raised", !.raised = context]

\* _api_get / _api_post returned resp: the call raised, or the response is an
\* authentication failure (_raise_if_auth_error), or the pipeline goes on.
Aborts(resp) == resp.error = ErrRaise \/ IsAuthError(resp.error)

\* Lines 82-88 without the test of line 89.
GetMeNoIdCheck ==
  /\ p.pc = "start"
  /\ api_log' = Append(api_log, <<"GET /me", PyNone>>)
  /\ LET user == world.me IN
       p' = IF Aborts(user) THEN RaiseAt("GET /me")
            ELSE [p EXCEPT !.pc = "top_tracks",
                           !.max_duration_ms = MaxDurationMs(world.duration_minutes),
                           !.user_id = user.id,
                           !.user_country = user.country]
  /\ UNCHANGED <<cvars, dvars, world>>

\* Lines 82-90: the budget, then the user's profile.
GetMe ==
  /\ p.pc = "start"
  /\ api_log' = Append(api_log, <<"GET /me", PyNone>>)
  /\ LET user == world.me IN
       p' = IF Aborts(user) THEN RaiseAt("GET /me")
            ELSE IF ~Truthy(user.id) THEN RaiseAt("missing user id")
            ELSE [p EXCEPT !.pc = "top_tracks",
                           !.max_duration_ms = MaxDurationMs(world.duration_minutes),
                           !.user_id = user.id,
                           !.user_country = user.country]
  /\ UNCHANGED <<cvars, dvars, world>>

\* Lines 93-97.
GetTopTracks ==
  /\ p.pc = "top_tracks"
  /\ api_log' = Append(api_log, <<"GET /me/top/tracks", Num(10)>>)
  /\ p' = IF Aborts(world.top) THEN RaiseAt("GET /me/top/tracks")
          ELSE [p EXCEPT !.pc = "top_artists", !.top_tracks = world.top.items]
  /\ UNCHANGED <<cvars, dvars, world>>

\* Lines 98-102.
GetTopArtists ==
  /\ p.pc = "top_artists"
  /\ api_log' = Append(api_log, <<"GET /me/top/artists", Num(5)>>)
  /\ p' = IF Aborts(world.artists) THEN RaiseAt("GET /me/top/artists")
          ELSE [p EXCEPT !.pc = "recent", !.top_artists = world.artists.items]
  /\ UNCHANGED <<cvars, dvars, world>>

\* Lines 103-115: the play-history items carry the track under "track".
GetRecentlyPlayed ==
  /\ p.pc = "recent"
  /\ api_log' = Append(api_log, <<"GET /me/player/recently-played", Num(10)>>)
  /\ p' = IF Aborts(world.recent) THEN RaiseAt("GET /me/player/recently-played")
          ELSE [p EXCEPT !.pc = "genres",
                         !.recent_tracks = [i \in 1..Len(world.recent.items) |->
                                              world.recent.items[i].track]]
  /\ UNCHANGED <<cvars, dvars, world>>

\* Lines 172-192: the recommendation request.
RecParams(q) ==
  [limit |-> 50, market |-> q.user_country, targets |-> q.targets,
   seed_tracks |-> q.seed_track_ids, seed_artists |-> q.seed_artist_ids,
   seed_genres |-> q.seed_genres]

\* Lines 117-147 (and 172-176 when there is no seed track): the genres the
\* provider accepts, then the seeds.
GetGenreSeeds ==
  /\ p.pc = "genres"
  /\ api_log' = Append(api_log, <<"GET /recommendations/available-genre-seeds", PyNone>>)
  /\ p' = IF Aborts(world.genres)
            THEN RaiseAt("GET /recommendations/available-genre-seeds")
            ELSE LET validated_genres == ValidatedGenres(world.music_genres,
                                                         world.genres.genres)
                     seed_track_ids   == SeedTrackIds(p.top_tracks)
                     seed_artist_ids  == SeedArtistIds(p.top_artists)
                     remaining_seed_slots ==
                       RemainingSeedSlots(seed_track_ids, seed_artist_ids)
                 IN [p EXCEPT !.validated_genres = validated_genres,
                              !.seed_track_ids = seed_track_ids,
                              !.seed_artist_ids = seed_artist_ids,
                              !.seed_genres = Take(validated_genres, remaining_seed_slots),
                              !.targets = IF seed_track_ids # <<>> THEN NoTargets
                                          ELSE Targets(<<>>, world.fitness_goal,
                                                       world.music_tempo),
                              !.pc = IF seed_track_ids # <<>> THEN "features"
                                                               ELSE "recs"]
  /\ UNCHANGED <<cvars, dvars, world>>

\* Lines 147-176: the audio features of the seed tracks and the targets.
GetAudioFeatures ==
  /\ p.pc = "features"
  /\ api_log' = Append(api_log, <<"GET /audio-features", p.seed_track_ids>>)
  /\ p' = IF Aborts(world.features) THEN RaiseAt("GET /v1/audio-features")
          ELSE [p EXCEPT !.pc = "recs",
                         !.targets = Targets(world.features.audio_features,
                                             world.fitness_goal, world.music_tempo)]
  /\ UNCHANGED <<cvars, dvars, world>>

\* Lines 206-233 raising when no track was chosen.
AfterStep7RaiseOnEmpty(rec_tracks) ==
  { IF r.acc.chosen_uris = <<>> THEN RaiseAt("no tracks found")
    ELSE [p EXCEPT !.pc = "create", !.rec_tracks = rec_tracks,
                   !.acc = r.acc, !.fallback = r.fallback]
      : r \in Step7(rec_tracks, p.top_tracks, p.recent_tracks,
                    p.seed_track_ids, p.max_duration_ms) }

\* Lines 206-233 on the recommended tracks at hand.
AfterStep7(rec_tracks) ==
  { [p EXCEPT !.pc = "create", !.rec_tracks = rec_tracks,
              !.acc = r.acc, !.fallback = r.fallback]
      : r \in Step7(rec_tracks, p.top_tracks, p.recent_tracks,
                    p.seed_track_ids, p.max_duration_ms) }

\* Lines 194-198, and 206-233 when tracks came back.
GetRecommendations ==
  /\ p.pc = "recs"
  /\ api_log' = Append(api_log, <<"GET /recommendations", RecParams(p)>>)
  /\ IF Aborts(world.recs1) THEN p' = RaiseAt("GET /recommendations")
     ELSE IF world.recs1.tracks = <<>> THEN p' = [p EXCEPT !.pc = "recs_retry"]
     ELSE p' \in AfterStep7(world.recs1.tracks)
  /\ UNCHANGED <<cvars, dvars, world>>

\* Lines 199-203 repeated for as long as no track comes back.
RetryRecommendationsAgain ==
  /\ p.pc = "recs_retry"
  /\ api_log' = Append(api_log, <<"GET /recommendations", RecParams(p)>>)
  /\ IF Aborts(world.recs2) THEN p' = RaiseAt("GET /recommendations (retry)")
     ELSE IF world.recs2.tracks = <<>> THEN p' = p
     ELSE p' \in AfterStep7(world.recs2.tracks)
  /\ UNCHANGED <<cvars, dvars, world>>

\* Lines 199-233: the one retry.
RetryRecommendations ==
  /\ p.pc = "recs_retry"
  /\ api_log' = Append(api_log, <<"GET /recommendations", RecParams(p)>>)
  /\ IF Aborts(world.recs2) THEN p' = RaiseAt("GET /recommendations (retry)")
     ELSE p' \in AfterStep7(world.recs2.tracks)
  /\ UNCHANGED <<cvars, dvars, world>>

\* Lines 236-254 and 269-292 without the test of line 255.
CreatePlaylistNoIdCheck ==
  /\ p.pc = "create"
  /\ api_log' = Append(api_log, <<"POST /users/{user_id}/playlists",
                                  [user_id |-> p.user_id, public |-> FALSE]>>)
  /\ LET playlist == world.create IN
       p' = IF Aborts(playlist) THEN RaiseAt("POST /users/{user_id}/playlists")
            ELSE IF p.acc.chosen_uris # <<>>
              THEN [p EXCEPT !.pc = "add", !.playlist_id = playlist.id]
            ELSE [p EXCEPT !.pc = "returned", !.playlist_id = playlist.id,
                           !.result = [id |-> playlist.id, best_effort |-> FALSE,
                                       tracksAdded |-> PyNone]]
  /\ UNCHANGED <<cvars, dvars, world>>

\* Lines 236-267, and 277-292 when no track was chosen.
CreatePlaylist ==
  /\ p.pc = "create"
  /\ api_log' = Append(api_log, <<"POST /users/{user_id}/playlists",
                                  [user_id |-> p.user_id, public |-> FALSE]>>)
  /\ LET playlist == world.create IN
       p' = IF Aborts(playlist) THEN RaiseAt("POST /users/{user_id}/playlists")
            ELSE IF ~Truthy(playlist.id)
              THEN [p EXCEPT !.pc = "returned",
                             !.result = [id |-> PyNone, best_effort |-> TRUE,
                                        tracksAdded |-> Num(0)]]
            ELSE IF p.acc.chosen_uris # <<>>
              THEN [p EXCEPT !.pc = "add", !.playlist_id = playlist.id]
            ELSE [p EXCEPT !.pc = "returned", !.playlist_id = playlist.id,
                           !.result = [id |-> playlist.id, best_effort |-> FALSE,
                                      tracksAdded |-> PyNone]]
  /\ UNCHANGED <<cvars, dvars, world>>

\* Lines 269-292 posting the chosen tracks one request per track.
AddTracksOneByOne ==
  /\ p.pc = "add"
  /\ LET k == Cardinality({ i \in 1..Len(api_log) :
                              api_log[i][1] = "POST /playlists/{playlist_id}/tracks" }) + 1
     IN /\ api_log' = Append(api_log, <<"POST /playlists/{playlist_id}/tracks",
                                        [playlist_id |-> p.playlist_id,
                                         uris |-> <<p.acc.chosen_uris[k]>>]>>)
        /\ p' = IF Aborts(world.add) THEN RaiseAt("POST /playlists/{playlist_id}/tracks")
                ELSE IF k < Len(p.acc.chosen_uris) THEN p
                ELSE [p EXCEPT !.pc = "returned",
                               !.result = [id |-> p.playlist_id, best_effort |-> FALSE,
                                          tracksAdded |-> PyNone]]
  /\ UNCHANGED <<cvars, dvars, world>>

\* Lines 269-292.
AddTracks ==
  /\ p.pc = "add"
  /\ api_log' = Append(api_log, <<"POST /playlists/{playlist_id}/tracks",
                                  [playlist_id |-> p.playlist_id,
                                   uris |-> p.acc.chosen_uris]>>)
  /\ p' = IF Aborts(world.add) THEN RaiseAt("POST /playlists/{playlist_id}/tracks")
          ELSE [p EXCEPT !.pc = "returned",
                         !.result = [id |-> p.playlist_id, best_effort |-> FALSE,
                                    tracksAdded |-> PyNone]]
  /\ UNCHANGED <<cvars, dvars, world>>

NextPipeline ==
  \/ GetMe
  \/ GetTopTracks
  \/ GetTopArtists
  \/ GetRecentlyPlayed
  \/ GetGenreSeeds
  \/ GetAudioFeatures
  \/ GetRecommendations
  \/ RetryRecommendations
  \/ CreatePlaylist
  \/ AddTracks

---------------------------------------------------------------------------
(* Two callers refreshing and persisting into one Preferences row. *)

\* The token lifecycle at rest.
CallsAtRest ==
  /\ pc = "idle"
  /\ now \in Times
  /\ calls = 0
  /\ prefs = [EmptyData EXCEPT !.access_token = AT(0)]
  /\ has_db = TRUE
  /\ req = CHOOSE r \in Requests : r.method = "GET"
  /\ access_token = PyNone
  /\ refresh_token = PyNone
  /\ expires_at = PyNone
  /\ current_token = PyNone
  /\ phase = "none"
  /\ token_data = NoResult
  /\ response = NoResponse
  /\ outcome = NoOutcome
  /\ refreshes = 0
  /\ events = <<>>

\* Each caller is a request with its own SpotifyService and db session.
Callers == {1, 2}

\* The profile has no Preferences row; also the object Preferences(profile_id=...)
\* before it is flushed: the column default of spotify_data applies at INSERT,
\* so the attribute is None (has_data is FALSE).
NoRecord ==
  [exists |-> FALSE, spotify_connected |-> FALSE, has_data |-> FALSE,
   spotify_data |-> EmptyData]

\* The rows the profile may have before the calls.
Records ==
  { NoRecord,
    [exists |-> TRUE, spotify_connected |-> FALSE, has_data |-> TRUE,
     spotify_data |-> EmptyData],
    [exists |-> TRUE, spotify_connected |-> TRUE, has_data |-> TRUE,
     spotify_data |-> [EmptyData EXCEPT !.access_token = AT(0),
                                        !.refresh_token = RT(0),
                                        !.expires_at = Num(1299)]] }

\* A caller before its call: the arguments of intercept_request, the locals
\* of the call, the object its session loaded, how update_spotify_tokens
\* ended and what it returned, and the log of what the call did.
NoSession ==
  [pc |-> "idle", access_token |-> PyNone, refresh_token |-> PyNone,
   expires_at |-> PyNone, current_token |-> PyNone, phase |-> "none",
   token_data |-> NoResult, refreshes |-> 0, loaded |-> NoRecord,
   upd |-> "none", returned |-> NoRecord, log |-> <<>>]

NoCallers ==
  /\ record = NoRecord
  /\ sess = [c \in Callers |-> NoSession]
  /\ stored0 = NoRecord

InitConcurrent ==
  /\ CallsAtRest
  /\ InitPipeline
  /\ record \in Records
  /\ sess = [c \in Callers |-> NoSession]
  /\ stored0 = record

\* The Authorization header read from the row instead of the call's token.
HeaderTokenShared(c) ==
  IF record.has_data /\ Truthy(record.spotify_data.access_token)
    THEN record.spotify_data.access_token
    ELSE sess[c].current_token

\* _make_request_with_headers: the Authorization header carries the token
\* the call holds.
HeaderToken(c) == sess[c].current_token

\* _make_api_call_with_interceptor: the callers hold the same token set; the
\* expiry each sees is inside or outside the buffer.
ConcurrentStart(c) ==
  /\ sess[c].pc = "idle"
  /\ \E ea \in {Num(1299), Num(1301)} :
       sess' = [sess EXCEPT ![c] = [@ EXCEPT !.pc = "UNCHECKED",
                                             !.access_token = AT(0),
                                             !.refresh_token = RT(0),
                                             !.expires_at = ea]]
  /\ UNCHANGED <<cvars, pvars, record, stored0>>

\* intercept_request, lines 131-140: the proactive check of caller c.
ConcurrentCheck(c) ==
  /\ sess[c].pc = "UNCHECKED"
  /\ sess' = [sess EXCEPT ![c] =
       IF NeedsProactiveRefresh(sess[c].expires_at, sess[c].refresh_token, now)
         THEN [@ EXCEPT !.pc = "REFRESH", !.phase = "proactive",
                        !.current_token = sess[c].access_token]
         ELSE [@ EXCEPT !.pc = "SEND", !.current_token = sess[c].access_token]]
  /\ UNCHANGED <<cvars, pvars, record, stored0>>

\* refresh_expired_token, lines 66-68, for caller c: the token endpoint
\* answers every refresh with tokens of its own.
ConcurrentRefresh(c) ==
  /\ sess[c].pc = "REFRESH"
  /\ \E td \in RefreshResults(2 * (c - 1) + sess[c].refreshes + 1) :
       sess' = [sess EXCEPT ![c] =
         [@ EXCEPT !.token_data = td,
                   !.refreshes = @ + 1,
                   !.log = Append(@, <<"refresh", sess[c].phase,
                                       sess[c].refresh_token, td>>),
                   !.pc = IF NewAccessToken(td) # PyNone THEN "QUERY"
                          ELSE IF sess[c].phase = "proactive" THEN "FAILED"
                          ELSE "DONE"]]
  /\ UNCHANGED <<cvars, pvars, record, stored0>>

\* update_spotify_tokens, lines 31-34: the session of caller c reads the row,
\* or builds a new object when there is none.
persist_query(c) ==
  /\ sess[c].pc = "QUERY"
  /\ sess' = [sess EXCEPT ![c] = [@ EXCEPT !.pc = "COMMIT", !.loaded = record]]
  /\ UNCHANGED <<cvars, pvars, record, stored0>>

\* update_spotify_tokens, lines 36-72, and persist_callback, lines 71-77:
\* the payload is merged into the dict of the loaded object and the object is
\* committed with spotify_connected set; on a new object the dict is None and
\* the first assignment raises, which persist_callback swallows.  The call
\* goes on with the refreshed token (interceptor 137-140, 162-163).
persist_commit(c) ==
  /\ sess[c].pc = "COMMIT"
  /\ LET payload == PersistPayload(sess[c].token_data)
         obj     == sess[c].loaded
         raises  == ~obj.has_data /\ \E f \in {"access_token", "refresh_token",
                                               "expires_at", "expires_in",
                                               "token_type"} : payload[f] # PyNone
         row     == [exists |-> TRUE, spotify_connected |-> TRUE,
                     has_data |-> obj.has_data,
                     spotify_data |-> update_spotify_tokens(obj.spotify_data, payload)]
         next    == IF sess[c].phase = "proactive" THEN "SEND" ELSE "RESEND"
     IN /\ record' = IF raises THEN record ELSE row
        /\ sess' = [sess EXCEPT ![c] =
             [@ EXCEPT !.pc = next,
                       !.current_token = NewAccessToken(sess[c].token_data),
                       !.upd = IF raises THEN "raised" ELSE "committed",
                       !.returned = IF raises THEN @ ELSE row,
                       !.log = Append(@, <<"persist",
                                           IF raises THEN "raised" ELSE "committed",
                                           payload>>)]]
  /\ UNCHANGED <<cvars, pvars, stored0>>

\* intercept_request, lines 142-160 and 173: the first request of caller c and
\* what its response leads to.
ConcurrentSend(c) ==
  /\ sess[c].pc = "SEND"
  /\ \E st \in {200, 401} :
       sess' = [sess EXCEPT ![c] =
         [@ EXCEPT !.log = @ \o << <<"send", HeaderToken(c)>>, <<"recv", st>> >>,
                   !.phase = IF NeedsReactiveRefresh([status |-> st], sess[c].refresh_token)
                               THEN "reactive" ELSE @,
                   !.pc = IF NeedsReactiveRefresh([status |-> st], sess[c].refresh_token)
                            THEN "REFRESH" ELSE "DONE"]]
  /\ UNCHANGED <<cvars, pvars, record, stored0>>

\* intercept_request, lines 163-171: the retry of caller c.
ConcurrentResend(c) ==
  /\ sess[c].pc = "RESEND"
  /\ \E st \in {200, 401} :
       sess' = [sess EXCEPT ![c] =
         [@ EXCEPT !.log = @ \o << <<"send", HeaderToken(c)>>, <<"recv", st>> >>,
                   !.pc = "DONE"]]
  /\ UNCHANGED <<cvars, pvars, record, stored0>>

NextConcurrent ==
  \/ \E c \in Callers : ConcurrentStart(c)
  \/ \E c \in Callers : ConcurrentCheck(c)
  \/ \E c \in Callers : ConcurrentRefresh(c)
  \/ \E c \in Callers : persist_query(c)
  \/ \E c \in Callers : persist_commit(c)
  \/ \E c \in Callers : ConcurrentSend(c)
  \/ \E c \in Callers : ConcurrentResend(c)

---------------------------------------------------------------------------
(* Specifications *)

\* One service taking calls through the interceptor.
Init == InitCalls /\ InitPipeline /\ NoCallers

Next ==
  \/ StartCall
  \/ ProactiveCheck
  \/ RefreshCallback
  \/ Persist
  \/ AfterRefresh
  \/ Send
  \/ HandleResponse
  \/ Resend
  \/ Parse

Spec == Init /\ [][Next]_vars

\* Two requests of one profile at the same time, each through its own
\* service and session.
SpecConcurrent == InitConcurrent /\ [][NextConcurrent]_vars

\* Track lists the provider may return.
TopLists    == { [i \in 1..n |-> T(i)] : n \in 0..MaxTop }
RecentPool  == { [track |-> T(1)], [track |-> T(MaxTop)], [track |-> T(MaxTop + 1)] }
RecPool     == { T(1), T(MaxTop + 1), T(MaxTop + 2), T(MaxTop + 3),
                 NoIdTrack, NoDurTrack(MaxTop + 4) }
RetryPool   == { T(MaxTop + 1), NoUriTrack(MaxTop + 5) }
RecLists    == SeqsUpTo(RecPool, MaxRecs)
RetryLists  == SeqsUpTo(RetryPool, MaxRecs)

\* The pipeline on every history and every list of recommendations, the
\* other answers being the nominal ones.
AccumWorlds ==
  { [NominalWorld EXCEPT !.duration_minutes = d, !.top.items = tl,
                         !.recent.items = rl, !.recs1.tracks = r[1],
                         !.recs2.tracks = r[2]]
      : d  \in {PyNone, Num(1), Num(2)},
        tl \in TopLists,
        rl \in SeqsUpTo(RecentPool, MaxRecent),
        r  \in { <<r1, <<>> >> : r1 \in RecLists \ {<<>>} }
                \cup { << <<>>, r2 >> : r2 \in RetryLists } }

InitAccum ==
  /\ CallsAtRest
  /\ NoCallers
  /\ world \in AccumWorlds
  /\ p = P0
  /\ api_log = <<>>

SpecAccum == InitAccum /\ [][NextPipeline]_vars

\* Histories for the seeds: top tracks and top artists, some without an id.
Artist(k)     == [id |-> <<"artist", k>>]
NoIdArtist    == [id |-> PyNone]
TopSeedLists  == TopLists \cup { <<NoIdTrack, T(1), T(2), T(3)>> }
ArtistLists   == { [i \in 1..n |-> Artist(i)] : n \in 0..MaxArtists }
                   \cup { <<NoIdArtist, Artist(1), Artist(2)>> }
\* Requested genres: repeated, differing by case or blanks, blank, unknown to
\* the provider; and lists longer than the five considered.
GenrePool     == { "rock", "Rock", "pop", "  ", "jazz" }
LongGenres    == { <<"rock", "pop", "funk", "soul", "indie", "metal">>,
                   <<"", "rock", "pop", "funk", "soul", "indie">>,
                   <<"jazz", "Rock", "POP", "funk", "soul", "metal">> }
GenreLists    == SeqsUpTo(GenrePool, MaxGenres) \cup LongGenres
AvailableSets == { {"rock", "pop"},
                   {"rock", "pop", "funk", "soul", "indie", "metal"} }

\* The pipeline on every history and every list of requested genres; the
\* first recommendations are empty and the retry returns one track.
SeedWorlds ==
  { [NominalWorld EXCEPT !.top.items = tl, !.artists.items = al,
                         !.music_genres = gl, !.genres.genres = av,
                         !.recs2.tracks = <<T(MaxTop + 1)>>]
      : tl \in TopSeedLists, al \in ArtistLists, gl \in GenreLists,
        av \in AvailableSets }

InitSeeds ==
  /\ CallsAtRest
  /\ NoCallers
  /\ world \in SeedWorlds
  /\ p = P0
  /\ api_log = <<>>

SpecSeeds == InitSeeds /\ [][NextPipeline]_vars

\* Audio features of a seed track: all numeric, some or all fields missing.
Features(e, v, d, t) == [energy |-> e, valence |-> v, danceability |-> d, tempo |-> t]
FeaturePool ==
  { Features(Num(90), Num(40), Num(60), Num(120)),
    Features(Num(50), Num(80), Num(20), Num(180)),
    Features(PyNone, Num(30), PyNone, Num(100)),
    Features(PyNone, PyNone, PyNone, PyNone) }
Goals  == { "strength", "muscle_gain", "endurance", "yoga", "None" }
Tempos == { "fast", "Fast", "slow", "mixed", "turbo", "None" }

\* The pipeline for every goal, tempo label and list of audio features, with
\* and without seed tracks.
TargetWorlds ==
  { [NominalWorld EXCEPT !.fitness_goal = g, !.music_tempo = t, !.top.items = tl,
                         !.features.audio_features = fl,
                         !.recs2.tracks = <<T(MaxTop + 1)>>]
      : g \in Goals, t \in Tempos, tl \in { <<>>, <<T(1)>>, <<T(1), T(2)>> },
        fl \in SeqsUpTo(FeaturePool, MaxFeatures) }

InitTargets ==
  /\ CallsAtRest
  /\ NoCallers
  /\ world \in TargetWorlds
  /\ p = P0
  /\ api_log = <<>>

SpecTargets == InitTargets /\ [][NextPipeline]_vars

\* The provider calls of the pipeline, by the name of their answer.
Steps ==
  << "me", "top", "artists", "recent", "genres", "features", "recs1", "recs2",
     "create", "add" >>

\* The dict of a step with none of its keys: dict.get(...) is None, and
\* get(...) or [] is the empty list.
Absent(s) ==
  CASE s = "me"       -> [http |-> 200, error |-> PyNone, id |-> PyNone,
                          country |-> PyNone]
    [] s = "genres"   -> [http |-> 200, error |-> PyNone, genres |-> {}]
    [] s = "features" -> [http |-> 200, error |-> PyNone, audio_features |-> <<>>]
    [] s \in {"recs1", "recs2"} -> [http |-> 200, error |-> PyNone, tracks |-> <<>>]
    [] s = "create"   -> [http |-> 200, error |-> PyNone, id |-> PyNone]
    [] s = "add"      -> [http |-> 200, error |-> PyNone]
    [] OTHER          -> [http |-> 200, error |-> PyNone, items |-> <<>>]

\* The statuses of a failing provider response.
FaultStatuses == { 401, 403, 500 }

\* What a step may get instead of its answer: an error response with a JSON
\* or a non-JSON body, a success without the expected keys, an exception.
Faults(s) ==
  { response_json(h, j, Absent(s), Absent(s)) : h \in FaultStatuses, j \in BOOLEAN }
    \cup { Absent(s), api_call_raised(Absent(s)) }

\* Histories and recommendations: a retry that brings a track, a first
\* answer that does, only unusable tracks, nothing at all.
FaultBases ==
  { [NominalWorld EXCEPT !.recs2.tracks = <<T(MaxTop + 1)>>],
    [NominalWorld EXCEPT !.recs1.tracks = <<T(MaxTop + 1), T(MaxTop + 2)>>],
    [NominalWorld EXCEPT !.top.items = <<>>,
                         !.recent.items = <<[track |-> NoUriTrack(2)]>>,
                         !.recs1.tracks = <<NoIdTrack>>],
    [NominalWorld EXCEPT !.top.items = <<>>] }

\* The world b with the answers f1 and f2 at its steps i and j.
FaultWorld(b, i, j, f1, f2) ==
  [[b EXCEPT ![Steps[i]] = f1] EXCEPT ![Steps[j]] = f2]

\* Every base with at most two of its steps failing.
InitFaults ==
  /\ CallsAtRest
  /\ NoCallers
  /\ \E b \in FaultBases, i \in 1..Len(Steps), j \in 1..Len(Steps) :
       /\ i <= j
       /\ \E f1 \in Faults(Steps[i]) \cup {b[Steps[i]]},
             f2 \in Faults(Steps[j]) \cup {b[Steps[j]]} :
            world = FaultWorld(b, i, j, f1, f2)
  /\ p = P0
  /\ api_log = <<>>

SpecFaults == InitFaults /\ [][NextPipeline]_vars

---------------------------------------------------------------------------
(* Reading the log of the call in flight. *)

Idx(kind) == { i \in 1..Len(events) : events[i][1] = kind }
Sends     == Idx("send")
Recvs     == Idx("recv")
Refreshes(ph) == { i \in Idx("refresh") : events[i][2] = ph }
First(S)  == CHOOSE i \in S : \A j \in S : i <= j
Last(S)   == CHOOSE i \in S : \A j \in S : j <= i
Ended     == pc \in {"DONE", "FAILED"}

\* The refresh logged at i returned a payload with a usable access_token.
Succeeded(i) == ~events[i][4].raised /\ Truthy(events[i][4].data.access_token)

\* The condition of the proactive refresh, as the specification words it.
NearExpiry ==
  /\ expires_at # PyNone
  /\ expires_at[2] - now < 300
  /\ refresh_token \notin {PyNone, EmptyStr}

\* C1: when expires_at is set, expires_at - now < 300 and a refresh token is
\* present, exactly one refresh precedes the first request, and that request
\* carries the refreshed access token; otherwise no refresh precedes the
\* first request, which carries the caller's access token.
C1_ProactiveRefresh ==
  Sends # {} =>
    LET s      == First(Sends)
        before == { i \in Idx("refresh") : i < s }
    IN IF NearExpiry
         THEN /\ Cardinality(before) = 1
              /\ \A i \in before :
                   /\ events[i][2] = "proactive"
                   /\ Succeeded(i)
                   /\ events[s][3] = events[i][4].data.access_token
         ELSE /\ before = {}
              /\ events[s][3] = access_token

C1_Witness ==
  /\ pc = "DONE"
  /\ NearExpiry
  /\ Refreshes("proactive") # {}
  /\ events[First(Sends)][3] = AT(1)

\* C2: when the first response is a 401, a refresh token is present and the
\* refresh that follows succeeds, the 401 is answered by exactly one refresh
\* and then exactly one re-send of the same request (method, url, params,
\* body) whose Authorization carries the token of that refresh.
C2_ReactiveRetry ==
  (/\ pc \in {"PARSE", "DONE", "FAILED"}
   /\ Recvs # {}
   /\ events[First(Recvs)][2].status = 401
   /\ refresh_token \notin {PyNone, EmptyStr})
  => /\ Cardinality(Refreshes("reactive")) = 1
     /\ \A i \in Refreshes("reactive") :
          /\ i > First(Recvs)
          /\ Succeeded(i) =>
               /\ Cardinality(Sends) = 2
               /\ Last(Sends) > i
               /\ events[Last(Sends)][2] = events[First(Sends)][2]
               /\ events[Last(Sends)][3] = events[i][4].data.access_token

C2_Witness ==
  /\ pc = "DONE"
  /\ Cardinality(Sends) = 2
  /\ \E i \in Refreshes("reactive") : Succeeded(i)
  /\ events[First(Recvs)][2].status = 401
  /\ events[Last(Recvs)][2].status = 200
  /\ req.method = "POST"

\* Both responses of the call were 401.
Second401 ==
  /\ Cardinality(Recvs) = 2
  /\ events[First(Recvs)][2].status = 401
  /\ events[Last(Recvs)][2].status = 401

Rank ==
  CASE pc = "UNCHECKED" -> 11
    [] pc = "REFRESH"   -> IF phase = "proactive" THEN 10 ELSE 5
    [] pc = "PERSIST"   -> IF phase = "proactive" THEN 9 ELSE 4
    [] pc = "REFRESHED" -> IF phase = "proactive" THEN 8 ELSE 3
    [] pc = "SEND"      -> 7
    [] pc = "SENT"      -> 6
    [] pc = "RESEND"    -> 2
    [] pc = "PARSE"     -> 1
    [] OTHER            -> 0

\* C4: a call terminates (every step of it lowers Rank, and a call that has
\* not ended can step), enters the reactive refresh at most once and sends
\* at most twice, whatever the provider answers.
C4_BoundedCall ==
  /\ [](/\ Cardinality(Sends) <= 2
        /\ Cardinality(Refreshes("reactive")) <= 1
        /\ Cardinality(Refreshes("proactive")) <= 1
        /\ (pc \notin {"idle", "DONE", "FAILED"} => ENABLED Next))
  /\ [][calls' = calls => Rank' < Rank]_vars

C4_Witness ==
  /\ pc = "DONE"
  /\ Cardinality(Sends) = 2
  /\ Cardinality(Refreshes("proactive")) = 1
  /\ Cardinality(Refreshes("reactive")) = 1
  /\ events[Last(Recvs)][2].status = 401

\* C5 as stated: a call in which a required refresh failed ends raising.
C5_FailedRefreshRaises ==
  (Ended /\ \E i \in Idx("refresh") : ~Succeeded(i)) => outcome.kind = "raised"

\* C6: every successful refresh is followed at once, before any request, by
\* one call of the persistence callback with the payload the refresh callback
\* returned; the callback is called at no other time.
C6_PersistOnRefresh ==
  /\ \A i \in Idx("refresh") :
       IF Succeeded(i)
         THEN IF i = Len(events)
                THEN pc = "PERSIST"
                ELSE /\ events[i + 1][1] = "persist"
                     /\ events[i + 1][3] = events[i][4].data
         ELSE i < Len(events) => events[i + 1][1] # "persist"
  /\ \A j \in Idx("persist") :
       /\ j > 1
       /\ events[j - 1][1] = "refresh"
       /\ Succeeded(j - 1)
  /\ \A s \in Sends :
       events[s][3] # access_token =>
         \E j \in Idx("persist") :
           j < s /\ events[j][3].access_token = events[s][3]

C6_Witness ==
  /\ pc = "DONE"
  /\ Cardinality(Idx("persist")) = 2
  /\ \E j \in Idx("persist") : events[j][3].refresh_token = PyNone

\* C7: a failure to persist never surfaces: the call goes on with the
\* refreshed token, raises nothing of its own, and returns the provider's
\* last response exactly as after a successful save.
C7_PersistFailureAbsorbed ==
  /\ outcome.kind = "raised" =>
       outcome.exc \in {"Access token is required", "Token refresh failed",
                        "SpotifyAPIError"}
  /\ (outcome.kind = "raised" /\ outcome.exc = "Token refresh failed") =>
       \E i \in Refreshes("proactive") : ~Succeeded(i)
  /\ \A j \in Idx("persist") :
       /\ j = Len(events) => pc \in {"REFRESHED", "SEND", "RESEND"}
       /\ j < Len(events) =>
            /\ events[j + 1][1] = "send"
            /\ events[j + 1][3] = events[j - 1][4].data.access_token
  /\ pc = "DONE" => Recvs # {} /\ outcome = Returned(events[Last(Recvs)][2])

C7_Witness ==
  /\ pc = "DONE"
  /\ \E j \in Idx("persist") : events[j][2] = "callback_raises"
  /\ \E j \in Idx("persist") : events[j][2] = "storage_raises"
  /\ outcome.body.status = 200

\* The last response is an error other than 401.
LastIsOtherError ==
  /\ Recvs # {}
  /\ events[Last(Recvs)][2].status \notin 200..299
  /\ events[Last(Recvs)][2].status # 401

---------------------------------------------------------------------------
(* The accumulated playlist. *)

\* Step 7 has run.
Accumulated == p.pc \in {"create", "add", "returned"}

\* The budget as the caller states it.
DurationBudget ==
  IF world.duration_minutes = PyNone THEN 60 * 60000
                                     ELSE world.duration_minutes[2] * 60000

RECURSIVE SumDurations(_)
\* The summed duration_ms of the tracks with the given ids.
SumDurations(ids) ==
  IF ids = <<>> THEN 0
  ELSE T(Head(ids)[2]).duration_ms[2] + SumDurations(Tail(ids))

\* C9: the durations of the accumulated tracks sum to at most
\* duration_minutes * 60000 (60 minutes when unspecified), on the
\* recommendation path and on the fallback path, whatever the shuffle.
C9_DurationWithinBudget ==
  Accumulated =>
    /\ p.acc.total_ms = SumDurations(p.acc.chosen_ids)
    /\ SumDurations(p.acc.chosen_ids) <= DurationBudget

\* C10: no seed track id is among the accumulated track ids and no track id
\* is accumulated twice, on the recommendation path and on the fallback path.
C10_Dedupe ==
  Accumulated =>
    LET ids == p.acc.chosen_ids IN
      /\ Len(p.acc.chosen_uris) = Len(ids)
      /\ \A i \in 1..Len(ids) :
           /\ ids[i] \notin Range(p.seed_track_ids)
           /\ \A k \in 1..SeedTrackLimit :
                k <= Len(world.top.items) => ids[i] # world.top.items[k].id
           /\ \A j \in 1..Len(ids) : i # j => ids[i] # ids[j]

C10_Witness ==
  /\ p.pc = "returned"
  /\ p.fallback
  /\ Len(p.seed_track_ids) = SeedTrackLimit
  /\ world.recent.items = <<[track |-> T(MaxTop)]>>
  /\ Len(world.top.items) = MaxTop
  /\ p.acc.chosen_ids = <<TrackId(MaxTop)>>
  /\ world.recs2.tracks # <<>>

---------------------------------------------------------------------------
(* The seeds of the recommendation request. *)

\* Step 4 has run.
Seeded == p.pc \in {"features", "recs", "recs_retry", "create", "add", "returned"}

\* The recommendation requests issued so far.
RecRequests ==
  { api_log[i][2] : i \in { j \in 1..Len(api_log) : api_log[j][1] = "GET /recommendations" } }

\* C11: whatever the top tracks, top artists, requested genres and available
\* genres, there are at most 3 seed tracks, at most 2 seed artists and at
\* most 5 - tracks - artists seed genres, hence at most 5 seeds in all, in
\* the pipeline and in every recommendation request it sends.
C11_SeedBudget ==
  /\ Seeded =>
       /\ Len(p.seed_track_ids) <= 3
       /\ Len(p.seed_artist_ids) <= 2
       /\ Len(p.seed_genres) <= 5 - Len(p.seed_track_ids) - Len(p.seed_artist_ids)
       /\ Len(p.seed_track_ids) + Len(p.seed_artist_ids) + Len(p.seed_genres) <= 5
  /\ \A q \in RecRequests :
       /\ Len(q.seed_tracks) <= 3
       /\ Len(q.seed_artists) <= 2
       /\ Len(q.seed_tracks) + Len(q.seed_artists) + Len(q.seed_genres) <= 5

\* Three seed tracks and two seed artists leave no slot for the two genres
\* that passed validation.
C11_Witness ==
  /\ RecRequests # {}
  /\ Len(world.top.items) > 3
  /\ Len(world.artists.items) > 2
  /\ Len(p.seed_track_ids) = 3
  /\ Len(p.seed_artist_ids) = 2
  /\ Len(p.validated_genres) = 2
  /\ p.seed_genres = <<>>

---------------------------------------------------------------------------
(* The provider calls of one run of the pipeline. *)

\* The positions in the log of the calls of the given name.
CallsOf(name) == { i \in 1..Len(api_log) : api_log[i][1] = name }
RecCalls      == CallsOf("GET /recommendations")
CreateCalls   == CallsOf("POST /users/{user_id}/playlists")
AddCalls      == CallsOf("POST /playlists/{playlist_id}/tracks")

\* The answer the i-th call of the log got.
ResponseTo(i) ==
  LET name == api_log[i][1] IN
  CASE name = "GET /me"                                    -> world.me
    [] name = "GET /me/top/tracks"                         -> world.top
    [] name = "GET /me/top/artists"                        -> world.artists
    [] name = "GET /me/player/recently-played"             -> world.recent
    [] name = "GET /recommendations/available-genre-seeds" -> world.genres
    [] name = "GET /audio-features"                        -> world.features
    [] name = "GET /recommendations" ->
         IF \A j \in RecCalls : i <= j THEN world.recs1 ELSE world.recs2
    [] name = "POST /users/{user_id}/playlists"            -> world.create
    [] OTHER                                               -> world.add

\* The answer is a dict (the call did not raise) without an error object of
\* status 401 or 403, the one _raise_if_auth_error raises on.
ReturnedNoAuthError(resp) ==
  /\ resp.error # ErrRaise
  /\ ~(resp.error[1] = "num" /\ resp.error[2] \in {401, 403})

\* The pipeline raised in the step of its last call.
RaisedAtLastCall == p.pc = "raised" /\ p.raised # "missing user id"

\* C12: the recommendations request is issued at most twice; the second
\* request follows the first with the same parameters, and is issued exactly
\* when the first returned no track and no auth error; when the retry
\* returns no auth error, with or without tracks, nothing is raised there
\* and the pipeline goes on to create the playlist.
C12_RetryOnce ==
  /\ [](/\ Cardinality(RecCalls) <= 2
        /\ \A i \in RecCalls, j \in RecCalls :
             /\ api_log[i][2] = api_log[j][2]
             /\ i < j => j = i + 1
        /\ Cardinality(RecCalls) = 2 =>
             /\ ReturnedNoAuthError(world.recs1)
             /\ world.recs1.tracks = <<>>
             /\ ReturnedNoAuthError(world.recs2) =>
                  \/ p.pc = "create"
                  \/ CreateCalls # {}
        /\ (/\ Cardinality(RecCalls) = 1
            /\ ReturnedNoAuthError(world.recs1)
            /\ world.recs1.tracks = <<>>) => p.pc = "recs_retry")
  /\ [][p.pc = "recs_retry" =>
         /\ Len(api_log') = Len(api_log) + 1
         /\ api_log'[Len(api_log')] = api_log[Len(api_log)]]_vars

\* The retry came back empty too, and the playlist was created.
C12_Witness ==
  /\ Cardinality(RecCalls) = 2
  /\ world.recs1.http = 200
  /\ world.recs2.http = 200
  /\ world.recs2.tracks = <<>>
  /\ p.pc = "returned"
  /\ p.result.id # PyNone

\* C13: a provider response of status 401 or 403 makes the pipeline raise at
\* that step: it is the answer to the last call ever issued, so after an
\* authentication failure no playlist is created and no track is added.
C13_AuthFailureAborts ==
  \A i \in 1..Len(api_log) :
    ResponseTo(i).http \in {401, 403} =>
      /\ i = Len(api_log)
      /\ p.pc = "raised"

\* C15: when the create-playlist call returns a dict without id and without
\* auth error, nothing is raised, the add-tracks call is never issued, and
\* the result has id None and tracksAdded 0.
C15_NoPlaylistId ==
  (/\ CreateCalls # {}
   /\ ReturnedNoAuthError(world.create)
   /\ ~Truthy(world.create.id)) =>
     /\ p.pc = "returned"
     /\ p.result.id = PyNone
     /\ p.result.tracksAdded = Num(0)
     /\ AddCalls = {}

\* Tracks had been chosen, the provider answered the creation with an error
\* that is no auth error, and the best-effort result came back.
C15_Witness ==
  /\ CreateCalls # {}
  /\ world.create.http = 500
  /\ p.acc.chosen_uris # <<>>
  /\ p.pc = "returned"
  /\ p.result.id = PyNone
  /\ AddCalls = {}

\* The recommendations were answered and left the pipeline without retry to
\* make: step 7 has run.
RecsAnswered ==
  \/ /\ Cardinality(RecCalls) = 1
     /\ ReturnedNoAuthError(world.recs1)
     /\ world.recs1.tracks # <<>>
  \/ /\ Cardinality(RecCalls) = 2
     /\ ReturnedNoAuthError(world.recs2)

\* C16: when the recommendations, the top tracks and the recently played
\* tracks give no usable track, the pipeline still issues the create-playlist
\* call, issues no add-tracks call, and returns a result; it raises only if
\* the creation itself raised or was an auth error.
C16_NoTracksNoRaise ==
  (RecsAnswered /\ p.acc.chosen_uris = <<>>) =>
    /\ AddCalls = {}
    /\ \/ p.pc = "create"
       \/ /\ CreateCalls # {}
          /\ p.pc \in {"returned", "raised"}
          /\ p.pc = "raised" => ~ReturnedNoAuthError(world.create)

\* Nothing usable anywhere: an empty playlist was created and returned.
C16_Witness ==
  /\ world.top.items = <<>>
  /\ world.recent.items # <<>>
  /\ world.recs1.tracks # <<>>
  /\ RecsAnswered
  /\ p.acc.chosen_uris = <<>>
  /\ p.pc = "returned"
  /\ p.result.id = <<"playlist", 1>>
  /\ AddCalls = {}

\* C17: the first provider call is the fetch of the current user's profile,
\* and when its answer has no user id the pipeline raises there and this call
\* stays the only one.
C17_ProfileFirst ==
  api_log # <<>> =>
    /\ api_log[1][1] = "GET /me"
    /\ ~Truthy(world.me.id) =>
         /\ Len(api_log) = 1
         /\ p.pc = "raised"
         /\ ReturnedNoAuthError(world.me) => p.raised = "missing user id"

\* A successful answer without id.
C17_Witness ==
  /\ Len(api_log) = 1
  /\ world.me.http = 200
  /\ world.me.error = PyNone
  /\ world.me.id = PyNone
  /\ p.pc = "raised"
  /\ p.raised = "missing user id"

---------------------------------------------------------------------------
(* The fallback to the user's own tracks. *)

\* C14: when the recommendations are empty after the retry and the user has
\* top tracks, the fallback path accumulates at least one track, and the
\* accumulated durations sum to at most the duration budget.
C14_FallbackNonEmpty ==
  (/\ Accumulated
   /\ Cardinality(RecCalls) = 2
   /\ world.recs2.tracks = <<>>
   /\ world.top.items # <<>>) =>
     /\ p.fallback
     /\ p.acc.chosen_uris # <<>>
     /\ SumDurations(p.acc.chosen_ids) <= DurationBudget

---------------------------------------------------------------------------
(* The seed genres. *)

\* The positions of the non-blank requested genres, and the first five.
NonBlank   == { i \in 1..Len(world.music_genres) : StripLower(world.music_genres[i]) # "" }
Considered == { i \in NonBlank : Cardinality({ j \in NonBlank : j < i }) < 5 }

\* C18: no genre occurs twice among the seed genres, whatever the requested
\* list (repeated values, values differing only by case or blanks).
C18_NoDuplicateGenres ==
  Seeded =>
    \A i \in 1..Len(p.seed_genres), j \in 1..Len(p.seed_genres) :
      i # j => p.seed_genres[i] # p.seed_genres[j]

\* C19: every seed genre of a recommendation request is the case-folded form
\* of one of the first five (non-blank) requested genres and is in the
\* provider's list of available genre seeds.
C19_ValidatedGenres ==
  \A q \in RecRequests :
    \A k \in 1..Len(q.seed_genres) :
      /\ q.seed_genres[k] \in world.genres.genres
      /\ \E i \in Considered : q.seed_genres[k] = StripLower(world.music_genres[i])

\* Six requested genres, all available, and room for five seeds: the sixth is
\* not sent; and a request from which an unavailable genre was dropped.
C19_Witness ==
  /\ RecRequests # {}
  /\ \/ /\ world.music_genres = <<"rock", "pop", "funk", "soul", "indie", "metal">>
        /\ "metal" \in world.genres.genres
        /\ p.seed_genres = <<"rock", "pop", "funk", "soul", "indie">>
     \/ /\ world.music_genres = <<"jazz", "Rock">>
        /\ p.seed_genres = <<"rock">>

---------------------------------------------------------------------------
(* The audio targets. *)

\* The numeric values of a field over the audio features the pipeline read:
\* none when there is no seed track.
FieldValues(key) ==
  IF world.top.items = <<>> THEN <<>>
  ELSE SelectSeq([i \in 1..Len(world.features.audio_features) |->
                    world.features.audio_features[i][key]],
                 LAMBDA v : v # PyNone)

\* The target of a field: the average of its values, else the default d.
Expected(key, d) ==
  LET vals == FieldValues(key) IN
    IF vals = <<>> THEN [num |-> d, den |-> 1]
    ELSE [num |-> SumNums(vals), den |-> Len(vals)]

\* The lookup tables of the claim, energies in hundredths.
GoalEnergy ==
  CASE world.fitness_goal = "strength"        -> 80
    [] world.fitness_goal = "endurance"       -> 72
    [] world.fitness_goal = "weight_loss"     -> 75
    [] world.fitness_goal = "muscle_gain"     -> 85
    [] world.fitness_goal = "general_fitness" -> 70
    [] OTHER                                  -> 70
LabelTempo ==
  CASE world.music_tempo \in {"slow"}                 -> 100
    [] world.music_tempo \in {"medium"}               -> 130
    [] world.music_tempo \in {"fast", "Fast", "FAST"} -> 160
    [] world.music_tempo \in {"mixed"}                -> 125
    [] OTHER                                          -> 130

\* C20: in every recommendation request, a target whose field has numeric
\* values across the seed tracks' audio features is their average; otherwise
\* energy is the fitness goal's table value (0.7 for an unknown goal), tempo
\* the tempo label's (130 for an unknown or missing label), valence and
\* danceability 0.5.
C20_AudioTargets ==
  \A q \in RecRequests :
    /\ q.targets.target_energy       = Expected("energy", GoalEnergy)
    /\ q.targets.target_tempo        = Expected("tempo", LabelTempo)
    /\ q.targets.target_valence      = Expected("valence", 50)
    /\ q.targets.target_danceability = Expected("danceability", 50)

\* Seed tracks whose features give tempo and valence but neither energy nor
\* danceability: two averages and two fallbacks in one request.
C20_Witness ==
  /\ RecRequests # {}
  /\ world.fitness_goal = "strength"
  /\ world.music_tempo = "fast"
  /\ p.seed_track_ids # <<>>
  /\ world.features.audio_features =
       << Features(PyNone, Num(30), PyNone, Num(100)),
          Features(PyNone, PyNone, PyNone, PyNone) >>
  /\ p.targets = [target_energy |-> Frac(80, 1), target_tempo |-> Frac(100, 1),
                  target_valence |-> Frac(30, 1), target_danceability |-> Frac(50, 1)]

---------------------------------------------------------------------------
(* The stored token set across refreshes. *)

\* The fields of spotify_data.
TokenFields == {"access_token", "refresh_token", "expires_at", "expires_in", "token_type"}

\* The first response of the call asks for no reactive refresh.
NoReactiveTrigger ==
  /\ Recvs # {}
  /\ \/ events[First(Recvs)][2].status # 401
     \/ refresh_token \in {PyNone, EmptyStr}

\* C25: the reactive refresh is triggered only by a 401 with a refresh token
\* present: a first response with any other status, and a 401 when there is
\* no refresh token, is handled after a single send, with no refresh, no
\* call of the persistence callback and no retry following it.
C25_ReactiveOnlyOn401 ==
  /\ NoReactiveTrigger =>
       /\ Cardinality(Sends) = 1
       /\ Cardinality(Recvs) = 1
       /\ Refreshes("reactive") = {}
       /\ \A j \in Idx("persist") \cup Idx("refresh") : j < First(Sends)
       /\ pc \in {"SENT", "PARSE", "DONE"}
  /\ Refreshes("reactive") # {} =>
       /\ events[First(Recvs)][2].status = 401
       /\ Truthy(refresh_token)
       /\ First(Refreshes("reactive")) > First(Recvs)

C25_Witness ==
  /\ pc = "DONE"
  /\ events[First(Recvs)][2].status = 401
  /\ refresh_token = PyNone
  /\ Cardinality(Sends) = 1
  /\ outcome.body.status = 401

\* C23: the stored token set changes only through refresh events: while no
\* refresh of the call has succeeded the persistence callback is not called,
\* and a step changes the preferences only when it is the persistence call
\* that follows a successful refresh.
C23_MutatesOnlyOnRefresh ==
  /\ []((\A i \in Idx("refresh") : ~Succeeded(i)) => Idx("persist") = {})
  /\ [][prefs' # prefs =>
          /\ Len(events') = Len(events) + 1
          /\ events'[Len(events')][1] = "persist"
          /\ events[Len(events)][1] = "refresh"
          /\ Succeeded(Len(events))]_vars

C23_Witness ==
  /\ pc = "DONE"
  /\ calls = MaxCalls
  /\ Refreshes("reactive") # {}
  /\ \A i \in Idx("refresh") : ~Succeeded(i)
  /\ Idx("persist") = {}

\* C28: persisting merges: a step changes a field of the stored spotify_data
\* only to the value the persisted payload holds for it, which is not None;
\* a field the refresh response omits keeps its stored value.
C28_PersistMerges ==
  [][\A f \in TokenFields :
       prefs'[f] # prefs[f] =>
         /\ events'[Len(events')][1] = "persist"
         /\ events'[Len(events')][3][f] # PyNone
         /\ prefs'[f] = events'[Len(events')][3][f]]_vars

C28_Witness ==
  /\ Idx("persist") # {}
  /\ events[Last(Idx("persist"))][2] = "ok"
  /\ events[Last(Idx("persist"))][3].refresh_token = PyNone
  /\ events[Last(Idx("persist"))][3].token_type = PyNone
  /\ prefs.access_token = events[Last(Idx("persist"))][3].access_token
  /\ prefs.refresh_token = RT(1)
  /\ prefs.token_type = Bearer
  /\ prefs.expires_in = Num(3600)

\* C29 as stated: when the persisted payload contains expires_in, the stored
\* expires_at becomes the current time plus expires_in.
C29_ExpiresAtFromExpiresIn ==
  \A j \in Idx("persist") :
    (/\ j = Len(events)
     /\ events[j][2] = "ok"
     /\ has_db
     /\ events[j][3].expires_in # PyNone)
    => prefs.expires_at = Num(now + events[j][3].expires_in[2])

\* C30 as stated: once a refresh was persisted with expires_in above the
\* buffer, a later call on the service takes the refreshed access token and
\* starts no proactive refresh.
C30_NoSecondProactiveRefresh ==
  (/\ calls > 1
   /\ events = <<>>
   /\ pc \in {"REFRESH", "SEND"}
   /\ prefs.expires_in # PyNone
   /\ prefs.expires_in[2] > token_buffer_seconds
   /\ access_token = prefs.access_token)
  => /\ pc = "SEND"
     /\ current_token = prefs.access_token

---------------------------------------------------------------------------
(* When the history is used. *)

\* A track step 7 can choose: id, uri and an int duration, and not a seed.
Usable(t) ==
  /\ Truthy(t.id)
  /\ Truthy(t.uri)
  /\ t.duration_ms[1] = "num"
  /\ t.id \notin Range(p.seed_track_ids)

UsableIds(tracks) == { tracks[i].id : i \in { j \in 1..Len(tracks) : Usable(tracks[j]) } }

\* The stop rule of the accumulation: every track but the last was added
\* while the total was below the budget.
StoppedAtBudget(ids) ==
  ids # <<>> => SumDurations(SubSeq(ids, 1, Len(ids) - 1)) < p.max_duration_ms

\* C26: the history is used exactly when the recommendations gave no track
\* that can be chosen; it is accumulated under the same stop rule, seed
\* exclusion and duplicate rule as the recommendations; and when at least
\* one recommended track was chosen every chosen track is a recommended
\* one, even if the budget is not reached.
C26_FallbackOnlyWhenEmpty ==
  Accumulated =>
    LET ids     == p.acc.chosen_ids
        history == p.top_tracks \o p.recent_tracks
    IN /\ p.fallback <=> UsableIds(p.rec_tracks) = {}
       /\ ~p.fallback => /\ ids # <<>>
                         /\ Range(ids) \subseteq UsableIds(p.rec_tracks)
       /\ p.fallback => /\ Range(ids) \subseteq UsableIds(history)
                        /\ UsableIds(history) # {} => ids # <<>>
       /\ StoppedAtBudget(ids)
       /\ p.acc.total_ms = SumDurations(ids)
       /\ \A i, j \in 1..Len(ids) : i # j => ids[i] # ids[j]

C26_Witness ==
  /\ p.pc = "returned"
  /\ ~p.fallback
  /\ Len(p.acc.chosen_ids) = 1
  /\ p.acc.total_ms < p.max_duration_ms
  /\ UsableIds(p.top_tracks \o p.recent_tracks) \ Range(p.acc.chosen_ids) # {}

---------------------------------------------------------------------------
(* Finalization. *)

\* C27: the create-playlist call is issued at most once, exactly once in an
\* invocation that got past it, and with public = False; the add-tracks call
\* is issued at most once, after the create call returned a playlist id and
\* only when at least one URI was accumulated, and it is the last call and
\* carries that playlist id and all accumulated URIs; with no URI
\* accumulated it is never issued.
C27_FinalizeOnce ==
  /\ Cardinality(CreateCalls) <= 1
  /\ p.pc \in {"add", "returned"} => Cardinality(CreateCalls) = 1
  /\ \A c \in CreateCalls :
       /\ api_log[c][2].public = FALSE
       /\ api_log[c][2].user_id = world.me.id
  /\ Cardinality(AddCalls) <= 1
  /\ \A a \in AddCalls :
       /\ a = Len(api_log)
       /\ \E c \in CreateCalls : c < a
       /\ ReturnedNoAuthError(world.create)
       /\ Truthy(world.create.id)
       /\ api_log[a][2].playlist_id = world.create.id
       /\ api_log[a][2].uris = p.acc.chosen_uris
       /\ api_log[a][2].uris # <<>>
  /\ p.acc.chosen_uris = <<>> => AddCalls = {}
  /\ (p.pc = "returned" /\ Truthy(p.result.id) /\ p.acc.chosen_uris # <<>>) =>
       Cardinality(AddCalls) = 1

C27_Witness ==
  /\ p.pc = "returned"
  /\ Len(p.acc.chosen_uris) = 2
  /\ Cardinality(CreateCalls) = 1
  /\ AddCalls = {Len(api_log)}
  /\ api_log[Len(api_log)][2].uris = <<Uri(MaxTop + 1), Uri(MaxTop + 2)>>

---------------------------------------------------------------------------
(* Concurrent callers. *)

\* Reading the log of caller c.
CIdx(c, kind) == { i \in 1..Len(sess[c].log) : sess[c].log[i][1] = kind }
CRefreshes(c, ph) == { i \in CIdx(c, "refresh") : sess[c].log[i][2] = ph }
CSucceeded(c, i) ==
  /\ ~sess[c].log[i][4].raised
  /\ Truthy(sess[c].log[i][4].data.access_token)

\* Both callers refreshed once, saved what they got, and ended.
BothPersistedOnce ==
  \A c \in Callers :
    /\ sess[c].pc = "DONE"
    /\ Cardinality(CIdx(c, "persist")) = 1
    /\ sess[c].upd = "committed"

\* The payload caller c saved.
Saved(c) == sess[c].log[First(CIdx(c, "persist"))][3]

\* C21 as stated: when two concurrent calls each refresh with the same
\* refresh token and save into the same row, each sends its request with the
\* access token of its own refresh, and the row finally holds what one of
\* the two serial orders of the saves would have left.
C21_SerialOutcome ==
  BothPersistedOnce =>
    /\ \A c \in Callers :
         sess[c].log[Last(CIdx(c, "send"))][2] = Saved(c).access_token
    /\ record.spotify_data \in
         { update_spotify_tokens(update_spotify_tokens(stored0.spotify_data, Saved(1)),
                                 Saved(2)),
           update_spotify_tokens(update_spotify_tokens(stored0.spotify_data, Saved(2)),
                                 Saved(1)) }

\* What a call decides from its own inputs and responses.
OwnDecisions(c) ==
  LET s == sess[c]
      L == s.log
      sends == CIdx(c, "send")
      recvs == CIdx(c, "recv")
      pro   == CRefreshes(c, "proactive")
      rea   == CRefreshes(c, "reactive")
  IN /\ \A i \in CIdx(c, "refresh") : L[i][3] = s.refresh_token
     /\ Cardinality(pro) <= 1 /\ Cardinality(rea) <= 1 /\ Cardinality(sends) <= 2
     /\ s.pc \notin {"idle", "UNCHECKED"} =>
          ((pro # {} \/ (s.pc = "REFRESH" /\ s.phase = "proactive"))
             <=> NeedsProactiveRefresh(s.expires_at, s.refresh_token, now))
     /\ sends # {} =>
          L[First(sends)][2] = IF pro # {} THEN L[First(pro)][4].data.access_token
                                           ELSE s.access_token
     /\ (rea # {} \/ (s.pc = "REFRESH" /\ s.phase = "reactive")) <=>
          (recvs # {} /\ NeedsReactiveRefresh([status |-> L[First(recvs)][2]],
                                              s.refresh_token))
     /\ Cardinality(sends) = 2 <=> (rea # {} /\ CSucceeded(c, First(rea))
                                      /\ s.pc = "DONE")
     /\ Cardinality(sends) = 2 =>
          L[Last(sends)][2] = L[First(rea)][4].data.access_token

C24_CreatesOrUpdates ==
  \A c \in Callers :
    \A j \in CIdx(c, "persist") :
      (/\ j = Len(sess[c].log)
       /\ sess[c].log[j][3].access_token # PyNone
       /\ sess[c].log[j][3].refresh_token # PyNone)
      => /\ sess[c].upd = "committed"
         /\ sess[c].returned.exists
         /\ sess[c].returned.spotify_connected
         /\ sess[c].returned.spotify_data.access_token = sess[c].log[j][3].access_token
         /\ sess[c].returned.spotify_data.refresh_token = sess[c].log[j][3].refresh_token

====
